---- MODULE Spec2Model ----
(***************************************************************************)
(* The high-performance Gemini service (src/unnamed/part_011): one worker  *)
(* process per CPU, each with its own requestQueue, processingBatches map  *)
(* and batchCounter, all sharing one Redis cache.                          *)
(*                                                                         *)
(* A JavaScript worker is a single-threaded event loop: every action below *)
(* is one run-to-completion turn of it (a handler from its start to its    *)
(* first await, or the continuation of one await together with the         *)
(* microtasks it triggers).  The redis and https libraries are not part of *)
(* the repository: a cache operation and an upstream call are modelled by  *)
(* their outcome, chosen when the awaited promise settles.                 *)
(***************************************************************************)
EXTENDS Integers, Sequences, FiniteSets, Bags, TLC

\* ------------------------------------------------------------- bounds
NumWorkers == 2
\* HTTP submissions the clients make in a behaviour of Spec
MaxRequests == 2
\* products in an accepted /analyze-batch body
MaxBatchItems == 3
\* submissions of one burst on one worker (SpecBurst)
MaxBurst == 6
\* requests enqueued, in either class, before the dispatcher runs (SpecQueue)
MaxQueued == 6
\* normal requests enqueued before the dispatcher runs (SpecQueue)
MaxPreload == 23
\* instants of the clock after the first (SpecEstimator)
MaxClock == 2
\* applications of the estimator to one product (SpecEstimator)
MaxEstimates == 2
\* normal requests enqueued before the dispatcher runs (SpecDrain)
MaxDrain == 7
\* worker processes that exit (SpecCluster)
MaxExits == 5

\* -------------------------------------------------- program constants
\* Math.min(5, requestQueue.length)
BatchLimit == 5
\* products.length > 10
MaxBatchProducts == 10

Workers == 1 .. NumWorkers
Priorities == {"normal", "high"}

Min(a, b) == IF a <= b THEN a ELSE b

\* ------------------------------------------------------------ products
\* A JSON value is modelled by a string: "" is an absent (or empty) field,
\* a value that starts with # is a JSON number, any other one a JSON string.
IsNumber(v) == v \in {"#42"}
Falsy(v) == v = ""

\* The characters of the strings of the model (of a number: its digits)
Chars(s) ==
    CASE s = "Cola" -> << "C", "o", "l", "a" >>
      [] s = "cola" -> << "c", "o", "l", "a" >>
      [] s = "Cola " -> << "C", "o", "l", "a", " " >>
      [] s = "Widget" -> << "W", "i", "d", "g", "e", "t" >>
      [] s = "Beverages" -> << "B", "e", "v", "e", "r", "a", "g", "e", "s" >>
      [] s = "beverages" -> << "b", "e", "v", "e", "r", "a", "g", "e", "s" >>
      [] s = "Meat" -> << "M", "e", "a", "t" >>
      [] s = "Dairy" -> << "D", "a", "i", "r", "y" >>
      [] s = "Snacks" -> << "S", "n", "a", "c", "k", "s" >>
      [] s = "Organic" -> << "O", "r", "g", "a", "n", "i", "c" >>
      [] s = "organic" -> << "o", "r", "g", "a", "n", "i", "c" >>
      [] s = "artificial" -> << "a", "r", "t", "i", "f", "i", "c", "i", "a", "l" >>
      [] s = "organic, artificial" -> << "o", "r", "g", "a", "n", "i", "c", ",", " ", "a", "r", "t", "i", "f", "i", "c", "i", "a", "l" >>
      [] s = "recyclable" -> << "r", "e", "c", "y", "c", "l", "a", "b", "l", "e" >>
      [] s = "A" -> << "A" >>
      [] s = "B" -> << "B" >>
      [] s = "C" -> << "C" >>
      [] s = "yes" -> << "y", "e", "s" >>
      [] s = "meat" -> << "m", "e", "a", "t" >>
      [] s = "dairy" -> << "d", "a", "i", "r", "y" >>
      [] s = "processed" -> << "p", "r", "o", "c", "e", "s", "s", "e", "d" >>
      [] s = "snack" -> << "s", "n", "a", "c", "k" >>
      [] s = "local" -> << "l", "o", "c", "a", "l" >>
      [] s = "beverage" -> << "b", "e", "v", "e", "r", "a", "g", "e" >>
      [] s = "#42" -> << "#", "4", "2" >>
      [] OTHER -> << >>

UpperCase == << "A", "B", "C", "D", "E", "F", "G", "H", "I", "J", "K", "L", "M",
               "N", "O", "P", "Q", "R", "S", "T", "U", "V", "W", "X", "Y", "Z" >>
LowerCase == << "a", "b", "c", "d", "e", "f", "g", "h", "i", "j", "k", "l", "m",
               "n", "o", "p", "q", "r", "s", "t", "u", "v", "w", "x", "y", "z" >>

\* String.prototype.toLowerCase, on characters
toLowerCase(cs) ==
    [i \in DOMAIN cs |->
        IF \E j \in DOMAIN UpperCase : UpperCase[j] = cs[i]
        THEN LowerCase[CHOOSE j \in DOMAIN UpperCase : UpperCase[j] = cs[i]]
        ELSE cs[i]]

\* String.prototype.includes, on characters
includes(cs, sub) ==
    \E i \in 0 .. Len(cs) - Len(sub) : SubSeq(cs, i + 1, i + Len(sub)) = sub

\* Math.round(num / den) for num >= 0, den > 0
Round(num, den) == (2 * num + den) \div (2 * den)

\* {}: a product is its fields name, brand, category, ingredients, packaging
\* and, of its environmental object, sustainability, palmOil, deforestation
Empty ==
    [defined |-> TRUE, name |-> "", brand |-> "", category |-> "", ingredients |-> "",
     packaging |-> "", sustainability |-> "", palmOil |-> "", deforestation |-> ""]
\* req.body.productData missing
Undefined == [Empty EXCEPT !.defined = FALSE]
Cola == [Empty EXCEPT !.name = "Cola", !.category = "Beverages"]
\* {name: "Widget", category: 42}: a category that is no string
BadCategory == [Empty EXCEPT !.name = "Widget", !.category = "#42"]

\* Cola written in lower case, and with a space after the name
ColaLower == [Cola EXCEPT !.name = "cola", !.category = "beverages"]
ColaSpaced == [Cola EXCEPT !.name = "Cola "]
\* Spellings of one product (SpecVariants)
Variants == {Cola, ColaLower, ColaSpaced}

Products == {Empty, Cola, BadCategory}
\* req.body.productData of the submissions of Spec (Cola is the product of the
\* bursts, the pre-filled queues and the batches)
ProductInputs == {Undefined, Empty, BadCategory}

\* A signature whose fields are strings or absent
WellFormed(pd) ==
    /\ pd.defined
    /\ ~IsNumber(pd.category)
    /\ ~IsNumber(pd.ingredients)
    /\ ~IsNumber(pd.packaging)

Or(v, dflt) == IF Falsy(v) THEN dflt ELSE v

\* The four interpolated fields of the prompt; the rest of the text is fixed.
buildAnalysisPrompt(pd) ==
    << Or(pd.name, "Unknown"), Or(pd.brand, "Unknown"),
       Or(pd.category, "Unknown"), Or(pd.ingredients, "Not specified") >>

\* `gemini:${md5(prompt)}`: md5 taken as injective on the prompts of the model
CacheKey(prompt) == << "gemini", prompt >>
\* the cacheKey of a request object built without one (/analyze-batch)
UndefinedKey == << "undefined" >>

CacheKeys ==
    { CacheKey(buildAnalysisPrompt(pd)) : pd \in Products \cup Variants }
    \cup { UndefinedKey }

NoEntry == [source |-> "none"]
GeminiSource == "Gemini AI (Optimized)"
FallbackSource == "Fallback Analysis (High-Performance)"

\* What callGeminiAPI resolves with: the parsed JSON plus metadata
GeminiAnalysis(pd) ==
    [source |-> GeminiSource, productData |-> pd,
     carbonFootprint |-> [perUnit |-> 30], sustainabilityScore |-> 70]

\* The same when the JSON of the model's answer has a score above 100 and a
\* negative amount: JSON.parse takes any numbers
ImplausibleAnalysis(pd) ==
    [source |-> GeminiSource, productData |-> pd,
     carbonFootprint |-> [perUnit |-> 0 - 30], sustainabilityScore |-> 150]

\* mutant: the fallback estimator throws on every product
FallbackAlwaysThrows(pd) == pd.defined

\* category.toLowerCase(), ingredients.includes() and packaging.includes()
\* on a number are TypeErrors
FallbackThrows(pd) ==
    IsNumber(pd.category) \/ IsNumber(pd.ingredients) \/ IsNumber(pd.packaging)

\* productData.category?.toLowerCase() || ''
CategoryOf(pd) == toLowerCase(Chars(pd.category))

\* kg CO2 per unit, in hundredths (Math.round(baseFootprint * 100) / 100)
estimateCarbonFootprint(pd) ==
    LET category == CategoryOf(pd)
        Has(k) == includes(category, Chars(k))
    IN IF Has("meat") \/ Has("dairy") THEN 250
       ELSE IF Has("processed") \/ Has("snack") THEN 120
       ELSE IF Has("organic") \/ Has("local") THEN 80
       ELSE IF Has("beverage") THEN 30
       ELSE 50

\* litres per unit (Math.round(baseWater))
estimateWaterUsage(pd) ==
    LET category == CategoryOf(pd)
        Has(k) == includes(category, Chars(k))
    IN IF Has("meat") THEN 200
       ELSE IF Has("dairy") THEN 100
       ELSE IF Has("beverage") THEN 30
       ELSE IF Has("organic") THEN Round(50 * 9, 10)
       ELSE 50

\* x?.includes(k): false when x is absent
Mentions(v, k) == includes(Chars(v), Chars(k))
\* x?.length > 0
NonEmpty(v) == Len(Chars(v)) > 0

Max(a, b) == IF a >= b THEN a ELSE b

\* mutant: the penalties weigh five times as much and the score is not clamped
ScoreUnclamped(pd) ==
    50 + (IF pd.sustainability = "A" THEN 20 ELSE 0)
       - (IF NonEmpty(pd.palmOil) THEN 75 ELSE 0)
       - (IF NonEmpty(pd.deforestation) THEN 100 ELSE 0)

calculateSustainabilityScore(pd) ==
    LET score ==
          50 + (IF pd.sustainability = "A" THEN 20 ELSE 0)
             + (IF pd.sustainability = "B" THEN 15 ELSE 0)
             + (IF Mentions(pd.ingredients, "organic") THEN 10 ELSE 0)
             + (IF Mentions(pd.packaging, "recyclable") THEN 5 ELSE 0)
             - (IF NonEmpty(pd.palmOil) THEN 15 ELSE 0)
             - (IF NonEmpty(pd.deforestation) THEN 20 ELSE 0)
             - (IF Mentions(pd.ingredients, "artificial") THEN 5 ELSE 0)
    IN Max(0, Min(100, score))

\* The result but for metadata.timestamp and metadata.worker: amounts of
\* carbon and gallons in hundredths, water in litres
getFallbackAnalysis(pd) ==
    [source |-> FallbackSource, productData |-> pd,
     carbonFootprint |->
        [perUnit |-> estimateCarbonFootprint(pd),
         per1000Units |-> estimateCarbonFootprint(pd) * 1000],
     waterUsage |->
        [perUnit |-> estimateWaterUsage(pd),
         per1000Units |-> estimateWaterUsage(pd) * 1000],
     environmentalEquivalents |->
        [waterInGallons |-> Round(estimateWaterUsage(pd) * 264172, 10000),
         plasticBottlesEquivalent |-> Round(estimateWaterUsage(pd) * 2, 1)],
     sustainabilityScore |-> calculateSustainabilityScore(pd)]

\* The products the estimator is applied to on its own: every combination of
\* the signals of the score on one category, and every category of the model
Categories == {"", "Beverages", "beverages", "Meat", "Dairy", "Snacks", "Organic"}
Grades == {"", "A", "B", "C"}
IngredientLists == {"", "organic", "artificial", "organic, artificial"}
EstimatorInputs ==
    { [Cola EXCEPT !.sustainability = g, !.ingredients = i, !.packaging = p,
                   !.palmOil = po, !.deforestation = df] :
        g \in Grades, i \in IngredientLists, p \in {"", "recyclable"},
        po \in {"", "yes"}, df \in {"", "yes"} }
    \cup { [Cola EXCEPT !.category = c] : c \in Categories }

\* getFallbackAnalysis over the products of the model, computed once
Fallbacks ==
    [pd \in Products \cup Variants \cup EstimatorInputs |-> getFallbackAnalysis(pd)]

\* getFallbackAnalysis called at instant now in the worker process pid
getFallbackAnalysisAt(pd, now, pid) ==
    [analysis |-> Fallbacks[pd],
     metadata |-> [source |-> FallbackSource, timestamp |-> now, worker |-> pid]]

\* How a callGeminiAPI promise settles
UpstreamFailures == {"non200", "timeout", "neterror", "malformed", "nokey"}
UpstreamOutcomes == {"success"} \cup UpstreamFailures
\* Further ways (SpecUpstream): a 200 whose JSON holds implausible numbers,
\* and a timeout whose req.destroy() makes the socket emit 'error' afterwards
UpstreamOddities == {"implausible", "timeoutThenError"}
\* How a redis command settles
CacheOutcomes == {"ok", "error"}
\* How the read of lines 122-124 ends: GET and JSON.parse succeed, GET
\* rejects, or JSON.parse throws on the value GET returned
ReadOutcomes == CacheOutcomes \cup {"unparsable"}

VARIABLES
    reading,            \* /analyze-carbon handlers awaiting redisClient.get (a bag)
    reqs,               \* live request objects, by id
    nextId,             \* request objects built so far + 1
    budget,             \* submissions the clients still make
    requestQueue,       \* per worker: ids, head first
    processingBatches,  \* per worker: batch number -> the batch (ids)
    batchCounter,       \* per worker
    immediate,          \* per worker: pending setImmediate(processBatches)
    cache,              \* the shared Redis store: key -> analysis or NoEntry
    warm,               \* keys written after an upstream success, not yet expired
    lastResponse,       \* the HTTP response sent by the latest turn, if any
    cycleSizes,         \* per worker: the sizes of the batches dispatched so far
    dispatchOrder,      \* ids in the order processGeminiRequest was entered
    batchJobs,          \* /analyze-batch handlers awaiting Promise.all
    warned,             \* the console.warn of the latest turn, if any
    clock,              \* Date.now()
    subject,            \* the product the estimator is applied to on its own
    estimates,          \* the results of those applications, in order
    alive,              \* the master's live worker processes (fork numbers)
    exitQueue,          \* 'exit' events emitted, not yet handled by the master
    forks,              \* cluster.fork() calls so far
    lateErrors          \* calls settled by 'timeout' whose 'error' event is pending

estimatorVars == << clock, subject, estimates >>
clusterVars == << alive, exitQueue, forks >>
serviceVars == << reading, reqs, nextId, budget, requestQueue, processingBatches,
                  batchCounter, immediate, cache, warm, lastResponse, cycleSizes,
                  dispatchOrder, batchJobs, warned, lateErrors >>

vars == << reading, reqs, nextId, budget, requestQueue, processingBatches,
           batchCounter, immediate, cache, warm, lastResponse, cycleSizes,
           dispatchOrder, batchJobs, warned, clock, subject, estimates,
           alive, exitQueue, forks, lateErrors >>

Live == DOMAIN reqs
Readers == BagToSet(reading)

IdleWorkers ==
    /\ requestQueue = [w \in Workers |-> << >>]
    /\ processingBatches = [w \in Workers |-> << >>]
    /\ batchCounter = [w \in Workers |-> 0]
    /\ immediate = [w \in Workers |-> 0]
    /\ cycleSizes = [w \in Workers |-> << >>]

NoResponse == [kind |-> "none"]

NoWarning == ""
ReadWarning == "Cache read error"
WriteWarning == "Cache write error"

\* The estimator is applied by the service only
EstimatorIdle ==
    /\ clock = 0
    /\ subject = Undefined
    /\ estimates = << >>

\* The master after its first turn: one fork per CPU
ClusterStarted ==
    /\ alive = 1 .. NumWorkers
    /\ exitQueue = << >>
    /\ forks = NumWorkers

\* Redis empty, no request seen yet
ColdStart ==
    /\ warned = NoWarning
    /\ lateErrors = {}
    /\ reading = EmptyBag
    /\ cache = [k \in CacheKeys |-> NoEntry]
    /\ warm = {}
    /\ lastResponse = NoResponse
    /\ dispatchOrder = << >>
    /\ batchJobs = << >>

Init ==
    /\ ColdStart
    /\ IdleWorkers
    /\ EstimatorIdle
    /\ ClusterStarted
    /\ reqs = << >>
    /\ nextId = 1
    /\ budget = MaxRequests

\* ------------------------------------------------------- HTTP responses
BadRequest(msg) == [kind |-> "error", status |-> 400, error |-> msg]
AnalysisFailed(r) ==
    [kind |-> "single", status |-> 500, error |-> "Analysis failed",
     productData |-> r.productData, calls |-> r.calls,
     warmAtRead |-> r.warmAtRead]
AnalysisResponse(pd, a, isCached, wasWarm, nCalls) ==
    [kind |-> "single", status |-> 200, success |-> TRUE, analysis |-> a,
     cached |-> isCached, productData |-> pd, calls |-> nCalls,
     warmAtRead |-> wasWarm]

Remove(f, id) == [i \in (DOMAIN f) \ {id} |-> f[i]]
Range(s) == { s[i] : i \in DOMAIN s }

\* ------------------------------------------------- POST /analyze-carbon
\* mutant: the presence check is missing
RejectsNothing(pd) == FALSE

\* if (!productData) return res.status(400)
Rejects(pd) == ~pd.defined

\* What the handler holds across await redisClient.get(cacheKey)
Reader(w, pd, prio) == [worker |-> w, productData |-> pd, priority |-> prio]

\* The handler up to its first await: validation, cache key, redisClient.get
Submit(w, pd, prio) ==
    /\ budget > 0
    /\ budget' = budget - 1
    /\ IF Rejects(pd)
       THEN /\ lastResponse' = BadRequest("Product data is required")
            /\ UNCHANGED reading
       ELSE /\ reading' = reading (+) SetToBag({Reader(w, pd, prio)})
            /\ lastResponse' = NoResponse
    /\ warned' = NoWarning
    /\ UNCHANGED << reqs, nextId, requestQueue, processingBatches, batchCounter,
                    immediate, cache, warm, cycleSizes, dispatchOrder, batchJobs >>
    /\ UNCHANGED << estimatorVars, clusterVars, lateErrors >>

\* The request object of lines 141-150; calls counts its callGeminiAPI calls
NewRequest(rd, wasWarm) ==
    [worker |-> rd.worker, productData |-> rd.productData,
     prompt |-> buildAnalysisPrompt(rd.productData),
     cacheKey |-> CacheKey(buildAnalysisPrompt(rd.productData)),
     priority |-> rd.priority, resolver |-> TRUE, job |-> 0, idx |-> 0,
     st |-> "queued", analysis |-> NoEntry, calls |-> 0, warmAtRead |-> wasWarm]

\* mutant: every request is pushed at the tail
EnqueueFifo(q, id, prio) == Append(q, id)

\* mutant: every request is put at the head
EnqueueLifo(q, id, prio) == << id >> \o q

\* if (priority === 'high') unshift else push
Enqueue(q, id, prio) == IF prio = "high" THEN << id >> \o q ELSE Append(q, id)

\* mutant: nothing is taken
BatchSizeNone(q) == 0

\* mutant: the whole queue is taken
BatchSizeUncapped(q) == Len(q)

\* requestQueue.splice(0, Math.min(5, requestQueue.length))
BatchSize(q) == Min(BatchLimit, Len(q))
SpliceBatch(q) == SubSeq(q, 1, BatchSize(q))
SpliceRest(q) == SubSeq(q, BatchSize(q) + 1, Len(q))

\* mutant: callGeminiAPI is invoked twice for the request
StartCallTwice(r) == [r EXCEPT !.st = "calling", !.calls = @ + 2]

\* processGeminiRequest up to its await: callGeminiAPI is invoked
StartCall(r) == [r EXCEPT !.st = "calling", !.calls = @ + 1]

\* mutant: batchCounter is one counter that all workers share
processBatchesShared(w, q, rq) ==
    IF Len(q) = 0
    THEN /\ requestQueue' = [requestQueue EXCEPT ![w] = q]
         /\ reqs' = rq
         /\ UNCHANGED << processingBatches, batchCounter, cycleSizes, dispatchOrder >>
    ELSE LET batch == SpliceBatch(q)
             batchId == batchCounter[w] + 1
         IN /\ requestQueue' = [requestQueue EXCEPT ![w] = SpliceRest(q)]
            /\ batchCounter' = [v \in Workers |-> batchId]
            /\ processingBatches' =
                  [processingBatches EXCEPT ![w] = (batchId :> batch) @@ @]
            /\ cycleSizes' = [cycleSizes EXCEPT ![w] = Append(@, Len(batch))]
            /\ dispatchOrder' = dispatchOrder \o batch
            /\ reqs' = [i \in DOMAIN rq |->
                          IF i \in Range(batch) THEN StartCall(rq[i]) ELSE rq[i]]

\* processBatches() on worker w, run up to its await, from queue q and the
\* request table rq (both as the caller left them)
processBatches(w, q, rq) ==
    IF Len(q) = 0
    THEN /\ requestQueue' = [requestQueue EXCEPT ![w] = q]
         /\ reqs' = rq
         /\ UNCHANGED << processingBatches, batchCounter, cycleSizes, dispatchOrder >>
    ELSE LET batch == SpliceBatch(q)
             batchId == batchCounter[w] + 1
         IN /\ requestQueue' = [requestQueue EXCEPT ![w] = SpliceRest(q)]
            /\ batchCounter' = [batchCounter EXCEPT ![w] = batchId]
            /\ processingBatches' =
                  [processingBatches EXCEPT ![w] = (batchId :> batch) @@ @]
            /\ cycleSizes' = [cycleSizes EXCEPT ![w] = Append(@, Len(batch))]
            /\ dispatchOrder' = dispatchOrder \o batch
            /\ reqs' = [i \in DOMAIN rq |->
                          IF i \in Range(batch) THEN StartCall(rq[i]) ELSE rq[i]]

\* mutant: a failed read is answered from the store all the same
IsHitDespiteError(k, outcome) == cache[k] # NoEntry

\* A stored value is read as a hit when the GET succeeds and finds an entry
IsHit(k, outcome) == outcome = "ok" /\ cache[k] # NoEntry

\* mutant: a hit also counts as a batch of its worker
AnswerFromCacheCounting(rd, k, wasWarm) ==
    /\ lastResponse' = AnalysisResponse(rd.productData, cache[k], TRUE, wasWarm, 0)
    /\ batchCounter' = [batchCounter EXCEPT ![rd.worker] = @ + 1]
    /\ UNCHANGED << reqs, nextId, requestQueue, processingBatches,
                    cycleSizes, dispatchOrder >>

\* The hit path of lines 123-134: the stored value is sent with cached: true
AnswerFromCache(rd, k, wasWarm) ==
    /\ lastResponse' = AnalysisResponse(rd.productData, cache[k], TRUE, wasWarm, 0)
    /\ UNCHANGED << reqs, nextId, requestQueue, processingBatches,
                    batchCounter, cycleSizes, dispatchOrder >>

\* redisClient.get settles: a hit answers at once; a miss or a read error
\* builds the request, enqueues it and calls processBatches()
CacheReadDone(rd, outcome) ==
    /\ rd \in Readers
    /\ reading' = reading (-) SetToBag({rd})
    /\ LET k == CacheKey(buildAnalysisPrompt(rd.productData))
           wasWarm == outcome = "ok" /\ k \in warm
       IN IF IsHit(k, outcome)
          THEN AnswerFromCache(rd, k, wasWarm)
          ELSE /\ processBatches(rd.worker,
                     Enqueue(requestQueue[rd.worker], nextId, rd.priority),
                     (nextId :> NewRequest(rd, wasWarm)) @@ reqs)
               /\ nextId' = nextId + 1
               /\ lastResponse' = NoResponse
    /\ warned' = IF outcome = "ok" THEN NoWarning ELSE ReadWarning
    /\ UNCHANGED << budget, immediate, cache, warm, batchJobs >>
    /\ UNCHANGED << estimatorVars, clusterVars, lateErrors >>

\* ------------------------------------------------ processGeminiRequest
AnalysisUndefined == [source |-> "undefined"]

\* resolve(x) and reject(e) of a request object built without them throw
\* "resolve is not a function" / "reject is not a function"
\* The catch block of lines 236-246, entered with the error of the try block
CatchBlock(r) ==
    IF FallbackThrows(r.productData)
    THEN IF r.resolver THEN [how |-> "rejected", analysis |-> NoEntry]
                       ELSE [how |-> "threw", analysis |-> NoEntry]
    ELSE IF r.resolver
         THEN [how |-> "resolved", analysis |-> Fallbacks[r.productData]]
         ELSE [how |-> "threw", analysis |-> NoEntry]

\* resolve(analysis) at line 234, inside the try block
TryResolve(r, a) ==
    IF r.resolver THEN [how |-> "resolved", analysis |-> a] ELSE CatchBlock(r)

\* The entry of results that /analyze-batch builds for one item (526, 528)
ItemResult(r, out) ==
    IF out.how = "threw"
    THEN [success |-> FALSE, error |-> "reject is not a function",
          productData |-> r.productData]
    ELSE [success |-> TRUE, analysis |-> AnalysisUndefined,
          productData |-> r.productData]

Pending == [pending |-> TRUE]

\* mutant: a failed item turns the whole response into an error
BatchResponseEscalating(results) ==
    IF \E i \in DOMAIN results : ~results[i].success
    THEN [kind |-> "batch", status |-> 500, success |-> FALSE, results |-> << >>]
    ELSE [kind |-> "batch", status |-> 200, success |-> TRUE, results |-> results]

\* res.json({success: true, results, ...}) once Promise.all has resolved
BatchResponse(results) ==
    [kind |-> "batch", status |-> 200, success |-> TRUE, results |-> results]

\* mutant: a request that settles right after a sibling's fallback answer is
\* answered with the error
SingleResponseAfterFailure(r, out) ==
    IF /\ lastResponse.kind = "single"
       /\ lastResponse.status = 200
       /\ lastResponse.analysis.source = FallbackSource
    THEN AnalysisFailed(r)
    ELSE IF out.how = "resolved"
         THEN AnalysisResponse(r.productData, out.analysis, FALSE, r.warmAtRead, r.calls)
         ELSE AnalysisFailed(r)

\* What the handler of /analyze-carbon sends once requestPromise settles
SingleResponse(r, out) ==
    IF out.how = "resolved"
    THEN AnalysisResponse(r.productData, out.analysis, FALSE, r.warmAtRead, r.calls)
    ELSE AnalysisFailed(r)

\* The batch of worker w that holds request id
BatchOf(w, id) ==
    CHOOSE b \in DOMAIN processingBatches[w] : id \in Range(processingBatches[w][b])

\* mutant: the batch is kept although all of its requests have settled
LastOfBatchNever(w, b, id) == FALSE

\* Promise.allSettled(batchPromises) resolves when request id settles: every
\* other request of batch b of worker w has settled before
LastOfBatch(w, b, id) ==
    \A j \in Range(processingBatches[w][b]) \ {id} : j \notin Live

\* mutant: the finally block schedules nothing
ReschedulesNever(q) == FALSE

\* if (requestQueue.length > 0) setImmediate(processBatches)
Reschedules(q) == Len(q) > 0

\* processGeminiRequest(r) settles with out: the awaiting handler answers,
\* and the finally block of processBatches runs if this was the last
\* unsettled request of its batch
Settle(id, out) ==
    LET r == reqs[id]
        w == r.worker
    IN /\ reqs' = Remove(reqs, id)
       /\ IF r.job = 0
          THEN LET b == BatchOf(w, id)
                   last == LastOfBatch(w, b, id)
               IN /\ lastResponse' = SingleResponse(r, out)
                  /\ processingBatches' =
                        [processingBatches EXCEPT ![w] =
                            IF last THEN Remove(@, b) ELSE @]
                  /\ immediate' =
                        [immediate EXCEPT ![w] =
                            IF last /\ Reschedules(requestQueue[w]) THEN @ + 1 ELSE @]
                  /\ UNCHANGED batchJobs
          ELSE LET job == batchJobs[r.job]
                   results == [job.results EXCEPT ![r.idx] = ItemResult(r, out)]
                   done == \A i \in DOMAIN results : results[i] # Pending
               IN /\ batchJobs' =
                        IF done THEN Remove(batchJobs, r.job)
                        ELSE [batchJobs EXCEPT ![r.job].results = results]
                  /\ lastResponse' =
                        IF done THEN BatchResponse(results) ELSE NoResponse
                  /\ UNCHANGED << processingBatches, immediate >>

\* mutant: the catch block stores the fallback analysis
UpstreamFailedCaching(id) ==
    /\ Settle(id, CatchBlock(reqs[id]))
    /\ cache' = [cache EXCEPT ![reqs[id].cacheKey] = Fallbacks[reqs[id].productData]]
    /\ UNCHANGED warm

\* await callGeminiAPI(...) throws: the catch block, which leaves the cache alone
UpstreamFailed(id) ==
    /\ Settle(id, CatchBlock(reqs[id]))
    /\ UNCHANGED << cache, warm >>

\* await callGeminiAPI(...) returns: redisClient.setex is issued
UpstreamSucceeded(id) ==
    /\ reqs' = [reqs EXCEPT ![id].st = "caching",
                            ![id].analysis = GeminiAnalysis(reqs[id].productData)]
    /\ lastResponse' = NoResponse
    /\ UNCHANGED << cache, warm, processingBatches, immediate, batchJobs >>

\* await callGeminiAPI(...) returns an analysis with implausible numbers:
\* nothing inspects them, redisClient.setex is issued
UpstreamImplausible(id) ==
    /\ reqs' = [reqs EXCEPT ![id].st = "caching",
                            ![id].analysis = ImplausibleAnalysis(reqs[id].productData)]
    /\ lastResponse' = NoResponse
    /\ UNCHANGED << cache, warm, processingBatches, immediate, batchJobs >>

\* The callGeminiAPI promise of request id settles
UpstreamDone(id, outcome) ==
    /\ id \in Live
    /\ reqs[id].st = "calling"
    /\ IF outcome = "success" THEN UpstreamSucceeded(id)
       ELSE IF outcome = "implausible" THEN UpstreamImplausible(id)
       ELSE UpstreamFailed(id)
    /\ lateErrors' = IF outcome = "timeoutThenError"
                     THEN lateErrors \cup {id} ELSE lateErrors
    /\ warned' = NoWarning
    /\ UNCHANGED << reading, nextId, budget, requestQueue, batchCounter,
                    cycleSizes, dispatchOrder >>
    /\ UNCHANGED << estimatorVars, clusterVars >>

\* mutant: the second reject answers the request again
LateRejectAnswers(id) ==
    [kind |-> "single", status |-> 500, error |-> "Analysis failed",
     productData |-> Cola, calls |-> 1, warmAtRead |-> FALSE]

\* reject(...) of the callGeminiAPI promise when it has settled already: no
\* effect, nothing is sent
LateReject(id) == NoResponse

\* req.on('error') fires for a call that the timeout handler has rejected
LateError(id) ==
    /\ id \in lateErrors
    /\ lateErrors' = lateErrors \ {id}
    /\ lastResponse' = LateReject(id)
    /\ warned' = NoWarning
    /\ UNCHANGED << reading, reqs, nextId, budget, requestQueue, processingBatches,
                    batchCounter, immediate, cache, warm, cycleSizes,
                    dispatchOrder, batchJobs >>
    /\ UNCHANGED << estimatorVars, clusterVars >>

\* mutant: the entry is stored under the key of another request object
CacheWriteWrongKey(r, outcome) ==
    IF outcome = "ok" THEN [cache EXCEPT ![UndefinedKey] = r.analysis] ELSE cache

\* mutant: the entry is stored although the command fails
CacheWriteAlways(r, outcome) == [cache EXCEPT ![r.cacheKey] = r.analysis]

\* redisClient.setex(cacheKey, 3600, JSON.stringify(analysis)) as the store sees it
CacheWrite(r, outcome) ==
    IF outcome = "ok" THEN [cache EXCEPT ![r.cacheKey] = r.analysis] ELSE cache

\* The setex promise settles (a failure is only logged), then resolve(analysis)
CacheWriteDone(id, outcome) ==
    /\ id \in Live
    /\ reqs[id].st = "caching"
    /\ cache' = CacheWrite(reqs[id], outcome)
    /\ warm' = IF outcome = "ok" THEN warm \cup {reqs[id].cacheKey} ELSE warm
    /\ Settle(id, TryResolve(reqs[id], reqs[id].analysis))
    /\ warned' = IF outcome = "ok" THEN NoWarning ELSE WriteWarning
    /\ UNCHANGED << reading, nextId, budget, requestQueue, batchCounter,
                    cycleSizes, dispatchOrder >>
    /\ UNCHANGED << estimatorVars, clusterVars, lateErrors >>

\* The 3600 s of an entry run out: Redis drops it
Expire(k) ==
    /\ cache[k] # NoEntry
    /\ cache' = [cache EXCEPT ![k] = NoEntry]
    /\ warm' = warm \ {k}
    /\ lastResponse' = NoResponse
    /\ warned' = NoWarning
    /\ UNCHANGED << reading, reqs, nextId, budget, requestQueue, processingBatches,
                    batchCounter, immediate, cycleSizes, dispatchOrder, batchJobs >>
    /\ UNCHANGED << estimatorVars, clusterVars, lateErrors >>

\* The callback of setImmediate(processBatches)
RunImmediate(w) ==
    /\ immediate[w] > 0
    /\ immediate' = [immediate EXCEPT ![w] = @ - 1]
    /\ processBatches(w, requestQueue[w], reqs)
    /\ lastResponse' = NoResponse
    /\ warned' = NoWarning
    /\ UNCHANGED << reading, nextId, budget, cache, warm, batchJobs >>
    /\ UNCHANGED << estimatorVars, clusterVars, lateErrors >>

\* -------------------------------------------------- POST /analyze-batch
BatchProducts == {Cola, BadCategory}
Repeat(pd, n) == [i \in 1 .. n |-> pd]

\* req.body of /analyze-batch: products missing or no array, an empty array,
\* arrays short enough to be accepted, and arrays of 11 and 12 products
BatchBodies ==
    { [isArray |-> FALSE, products |-> << >>], [isArray |-> TRUE, products |-> << >>] }
    \cup { [isArray |-> TRUE, products |-> ps] :
             ps \in UNION { [1 .. n -> BatchProducts] : n \in 1 .. MaxBatchItems } }
    \cup { [isArray |-> TRUE, products |-> Repeat(Cola, n)] :
             n \in { MaxBatchProducts + 1, MaxBatchProducts + 2 } }

\* The object literal of lines 521-525: no cacheKey, resolve or reject.
\* processGeminiRequest is entered at once, so callGeminiAPI is invoked.
NewItem(w, pd, job, i) ==
    [worker |-> w, productData |-> pd, prompt |-> buildAnalysisPrompt(pd),
     cacheKey |-> UndefinedKey, priority |-> "",
     resolver |-> FALSE, job |-> job, idx |-> i, st |-> "calling",
     analysis |-> NoEntry, calls |-> 1, warmAtRead |-> FALSE]

\* mutant: the limit is two products higher
TooManyAboveTwelve(n) == n > MaxBatchProducts + 2

\* if (products.length > 10) return res.status(400)
TooMany(n) == n > MaxBatchProducts

\* The handler up to await Promise.all(analysisPromises)
SubmitBatch(w, body) ==
    /\ budget > 0
    /\ budget' = budget - 1
    /\ LET n == Len(body.products)
       IN IF ~body.isArray \/ n = 0
          THEN /\ lastResponse' = BadRequest("Products array is required")
               /\ UNCHANGED << reqs, nextId, batchJobs >>
          ELSE IF TooMany(n)
          THEN /\ lastResponse' = BadRequest("Maximum 10 products per batch")
               /\ UNCHANGED << reqs, nextId, batchJobs >>
          ELSE /\ reqs' = [i \in nextId + 1 .. nextId + n |->
                             NewItem(w, body.products[i - nextId], nextId, i - nextId)]
                          @@ reqs
               /\ batchJobs' = (nextId :> [worker |-> w, products |-> body.products,
                                           results |-> [i \in 1 .. n |-> Pending]])
                               @@ batchJobs
               /\ nextId' = nextId + n + 1
               /\ lastResponse' = NoResponse
    /\ warned' = NoWarning
    /\ UNCHANGED << reading, requestQueue, processingBatches, batchCounter,
                    immediate, cache, warm, cycleSizes, dispatchOrder >>
    /\ UNCHANGED << estimatorVars, clusterVars, lateErrors >>

\* ------------------------------------------------------- specifications
\* Traffic on POST /analyze-carbon
Next ==
    \/ \E w \in Workers, pd \in ProductInputs, prio \in Priorities : Submit(w, pd, prio)
    \/ \E rd \in Readers, o \in ReadOutcomes : CacheReadDone(rd, o)
    \/ \E id \in Live, o \in UpstreamOutcomes : UpstreamDone(id, o)
    \/ \E id \in Live, o \in CacheOutcomes : CacheWriteDone(id, o)
    \/ \E k \in CacheKeys : Expire(k)

Spec == Init /\ [][Next]_vars

\* Traffic on POST /analyze-batch
NextBatch ==
    \/ \E w \in Workers, body \in BatchBodies : SubmitBatch(w, body)
    \/ \E id \in Live, o \in UpstreamOutcomes : UpstreamDone(id, o)
    \/ \E id \in Live, o \in CacheOutcomes : CacheWriteDone(id, o)
    \/ \E k \in CacheKeys : Expire(k)

\* One batch request: batch handlers share nothing but the cache
InitBatch ==
    /\ ColdStart
    /\ IdleWorkers
    /\ EstimatorIdle
    /\ ClusterStarted
    /\ reqs = << >>
    /\ nextId = 1
    /\ budget = 1

SpecBatch == InitBatch /\ [][NextBatch]_vars

\* The upstream call and the cache write of every item settle
BatchIds == 1 .. MaxBatchItems + 1

FairnessBatch ==
    /\ WF_vars(\E id \in BatchIds, o \in UpstreamOutcomes : UpstreamDone(id, o))
    /\ WF_vars(\E id \in BatchIds, o \in CacheOutcomes : CacheWriteDone(id, o))

FairSpecBatch == SpecBatch /\ FairnessBatch

\* A burst of submissions of one product to worker 1
InitBurst ==
    /\ ColdStart
    /\ IdleWorkers
    /\ EstimatorIdle
    /\ ClusterStarted
    /\ reqs = << >>
    /\ nextId = 1
    /\ budget = MaxBurst

NextBurst ==
    \/ Submit(1, Cola, "normal")
    \/ \E rd \in Readers, o \in ReadOutcomes : CacheReadDone(rd, o)
    \/ \E id \in Live, o \in UpstreamOutcomes : UpstreamDone(id, o)
    \/ \E id \in Live, o \in CacheOutcomes : CacheWriteDone(id, o)
    \/ \E k \in CacheKeys : Expire(k)

SpecBurst == InitBurst /\ [][NextBurst]_vars

\* Submissions of one product in different spellings to worker 1
NextVariants ==
    \/ \E pd \in Variants : Submit(1, pd, "normal")
    \/ \E rd \in Readers, o \in ReadOutcomes : CacheReadDone(rd, o)
    \/ \E id \in Live, o \in UpstreamOutcomes : UpstreamDone(id, o)
    \/ \E id \in Live, o \in CacheOutcomes : CacheWriteDone(id, o)
    \/ \E k \in CacheKeys : Expire(k)

SpecVariants == Init /\ [][NextVariants]_vars

\* Submissions of one product to worker 1, the upstream call ending in any
\* of its ways
NextUpstream ==
    \/ \E prio \in Priorities : Submit(1, Cola, prio)
    \/ \E rd \in Readers, o \in ReadOutcomes : CacheReadDone(rd, o)
    \/ \E id \in Live, o \in UpstreamOutcomes \cup UpstreamOddities : UpstreamDone(id, o)
    \/ \E id \in Live, o \in CacheOutcomes : CacheWriteDone(id, o)
    \/ \E id \in lateErrors : LateError(id)
    \/ \E k \in CacheKeys : Expire(k)

SpecUpstream == Init /\ [][NextUpstream]_vars

\* The queue operations on their own: processBatches applied to a queue
\* that lines 153-157 have filled, request i being the i-th one enqueued.
RECURSIVE EnqueueAll(_, _)
EnqueueAll(prios, n) ==
    IF n = 0 THEN << >> ELSE Enqueue(EnqueueAll(prios, n - 1), n, prios[n])

QueueInputs ==
    UNION { [1 .. n -> Priorities] : n \in 0 .. MaxQueued }
    \cup { [i \in 1 .. n |-> "normal"] : n \in 0 .. MaxPreload }

\* Worker 1 with its queue filled, in order, by requests of the priorities
\* of one of the given sequences, and processBatches about to run
QueueFilled(inputs) ==
    /\ ColdStart
    /\ EstimatorIdle
    /\ ClusterStarted
    /\ budget = 0
    /\ \E prios \in inputs :
         /\ reqs = [i \in 1 .. Len(prios) |->
                      NewRequest(Reader(1, Cola, prios[i]), FALSE)]
         /\ nextId = Len(prios) + 1
         /\ requestQueue = [w \in Workers |->
                              IF w = 1 THEN EnqueueAll(prios, Len(prios)) ELSE << >>]
    /\ processingBatches = [w \in Workers |-> << >>]
    /\ batchCounter = [w \in Workers |-> 0]
    /\ immediate = [w \in Workers |-> IF w = 1 THEN 1 ELSE 0]
    /\ cycleSizes = [w \in Workers |-> << >>]

InitQueue == QueueFilled(QueueInputs)

NextQueue ==
    \/ \E w \in Workers : RunImmediate(w)
    \/ \E id \in Live, o \in UpstreamOutcomes : UpstreamDone(id, o)
    \/ \E id \in Live, o \in CacheOutcomes : CacheWriteDone(id, o)

SpecQueue == InitQueue /\ [][NextQueue]_vars

\* The same from queues of normal requests that take up to two cycles
DrainInputs == { [i \in 1 .. n |-> "normal"] : n \in 0 .. MaxDrain }

InitDrain == QueueFilled(DrainInputs)

SpecDrain == InitDrain /\ [][NextQueue]_vars

\* The event loop runs every setImmediate callback, and every upstream call
\* and cache write of a queued request settles
QueueIds == 1 .. MaxDrain

FairnessQueue ==
    /\ WF_vars(\E w \in Workers : RunImmediate(w))
    /\ WF_vars(\E id \in QueueIds, o \in UpstreamOutcomes : UpstreamDone(id, o))
    /\ WF_vars(\E id \in QueueIds, o \in CacheOutcomes : CacheWriteDone(id, o))

FairSpecDrain == SpecDrain /\ FairnessQueue

\* The fallback estimator on its own: getFallbackAnalysis applied to one
\* product at different instants and in different workers
InitEstimator ==
    /\ ColdStart
    /\ IdleWorkers
    /\ ClusterStarted
    /\ reqs = << >>
    /\ nextId = 1
    /\ budget = 0
    /\ clock = 0
    /\ subject \in EstimatorInputs
    /\ estimates = << >>

\* Time passes
Tick ==
    /\ clock < MaxClock
    /\ clock' = clock + 1
    /\ UNCHANGED << subject, estimates, serviceVars, clusterVars >>

\* getFallbackAnalysis(subject) returns in worker w
Estimate(w) ==
    /\ Len(estimates) < MaxEstimates
    /\ ~FallbackThrows(subject)
    /\ estimates' = Append(estimates, getFallbackAnalysisAt(subject, clock, w))
    /\ UNCHANGED << clock, subject, serviceVars, clusterVars >>

NextEstimator ==
    \/ Tick
    \/ \E w \in Workers : Estimate(w)

SpecEstimator == InitEstimator /\ [][NextEstimator]_vars

\* The master process: worker processes are numbered by their fork
InitCluster ==
    /\ ColdStart
    /\ IdleWorkers
    /\ EstimatorIdle
    /\ ClusterStarted
    /\ reqs = << >>
    /\ nextId = 1
    /\ budget = 0

\* exits so far: those the master has handled and those it has yet to
Exits == (forks - NumWorkers) + Len(exitQueue)

\* A worker process ends with the given code; the master is sent 'exit'
WorkerExit(pid, code) ==
    /\ pid \in alive
    /\ Exits < MaxExits
    /\ alive' = alive \ {pid}
    /\ exitQueue' = Append(exitQueue, [pid |-> pid, code |-> code])
    /\ UNCHANGED << forks, serviceVars, estimatorVars >>

\* The worker's SIGTERM handler: redisClient.quit(); process.exit(0)
Sigterm(pid) == WorkerExit(pid, 0)

\* The worker dies of an uncaught exception or a signal
Crash(pid) == WorkerExit(pid, 1)

\* mutant: only crashed workers are replaced
RestartsOnCrashOnly(ev) == ev.code # 0

\* The 'exit' handler looks at neither code nor signal
Restarts(ev) == TRUE

\* cluster.on('exit', ...) runs for the oldest pending event
OnExit ==
    /\ exitQueue # << >>
    /\ exitQueue' = Tail(exitQueue)
    /\ IF Restarts(Head(exitQueue))
       THEN /\ forks' = forks + 1
            /\ alive' = alive \cup {forks + 1}
       ELSE UNCHANGED << forks, alive >>
    /\ UNCHANGED << serviceVars, estimatorVars >>

NextCluster ==
    \/ \E pid \in alive : Sigterm(pid)
    \/ \E pid \in alive : Crash(pid)
    \/ OnExit

SpecCluster == InitCluster /\ [][NextCluster]_vars

\* The master's event loop runs the handler of every event it is sent
FairSpecCluster == SpecCluster /\ WF_vars(OnExit)

\* Every redis command and every upstream call settles (the upstream call
\* within its 30 s timeout), and the event loop then runs the continuation.
AllReaders == { Reader(w, pd, prio) : w \in Workers, pd \in Products, prio \in Priorities }
Ids == 1 .. MaxRequests

Fairness ==
    /\ WF_vars(\E rd \in AllReaders, o \in ReadOutcomes : CacheReadDone(rd, o))
    /\ WF_vars(\E id \in Ids, o \in UpstreamOutcomes : UpstreamDone(id, o))
    /\ WF_vars(\E id \in Ids, o \in CacheOutcomes : CacheWriteDone(id, o))

FairSpec == Spec /\ Fairness

\* ================================================================ claims
SingleAnswer == lastResponse.kind = "single"
KeyOf(pd) == CacheKey(buildAnalysisPrompt(pd))
InFlight(w) == { id \in Live : reqs[id].worker = w /\ reqs[id].st = "calling" }
Before(a, b, s) ==
    \E i, j \in DOMAIN s : s[i] = a /\ s[j] = b /\ i < j

\* C1: a well-formed request admitted by /analyze-carbon is never answered
\* with the 500 of a rejected promise: every answer to it is a 200 carrying an
\* upstream or a fallback analysis; and whenever handlers await the cache or
\* request objects exist, a state follows in which all of them are settled.
C1_TotalResolution ==
    /\ [](SingleAnswer /\ WellFormed(lastResponse.productData)
            => /\ lastResponse.status = 200
               /\ lastResponse.analysis.source \in {GeminiSource, FallbackSource})
    /\ (Readers # {} \/ Live # {}) ~> (Readers = {} /\ Live = {})

\* a well-formed request whose upstream call failed is answered with a fallback
C1_Witness ==
    /\ SingleAnswer
    /\ WellFormed(lastResponse.productData)
    /\ lastResponse.status = 200
    /\ lastResponse.analysis.source = FallbackSource
    /\ lastResponse.calls = 1

\* C2: a worker never has more than 5 calls of callGeminiAPI in flight.
C2_AtMostFiveInFlight ==
    \A w \in Workers : Cardinality(InFlight(w)) <= BatchLimit

\* C3: processingBatches of a worker never holds more than one batch.
C3_OneCycleAtATime ==
    \A w \in Workers : Cardinality(DOMAIN processingBatches[w]) <= 1

C6_WarmKeyHits ==
    SingleAnswer /\ lastResponse.warmAtRead
        => /\ lastResponse.status = 200
           /\ lastResponse.cached
           /\ lastResponse.calls = 0
           /\ lastResponse.analysis.source = GeminiSource

C6_Witness ==
    /\ SingleAnswer
    /\ lastResponse.warmAtRead
    /\ lastResponse.cached

C8_OnlyUpstreamCached ==
    \A k \in CacheKeys :
        cache[k] # NoEntry
        => /\ cache[k].source = GeminiSource
           /\ k \in warm

\* a fallback is resolved for a key while the cache holds an entry for it
C8_Witness ==
    /\ SingleAnswer
    /\ lastResponse.status = 200
    /\ lastResponse.analysis.source = FallbackSource
    /\ cache[KeyOf(lastResponse.productData)] # NoEntry

\* C9: every entry of the results of an accepted batch has success = true.
C9_BatchItemsSucceed ==
    lastResponse.kind = "batch"
        => \A i \in DOMAIN lastResponse.results : lastResponse.results[i].success

\* C10 (as claimed): no signature without name and category gets as far as
\* the cache read, the queue or the upstream call.
C10_NoSignatureRejected ==
    /\ \A rd \in Readers :
          ~(Falsy(rd.productData.name) /\ Falsy(rd.productData.category))
    /\ \A id \in Live :
          ~(Falsy(reqs[id].productData.name) /\ Falsy(reqs[id].productData.category))

\* C10 (amended): a submission without productData is answered 400 at once;
\* it never gets as far as the cache read, the queue or the upstream call.
C10_MissingProductRejected ==
    /\ \A rd \in Readers : rd.productData.defined
    /\ \A id \in Live : reqs[id].productData.defined
    /\ SingleAnswer => lastResponse.productData.defined

C10_Witness ==
    /\ lastResponse = BadRequest("Product data is required")
    /\ reading = EmptyBag
    /\ Live = {}

\* C11: a batch request with more than 10 products (11 or 12 here) is answered
\* 400 "Maximum 10 products per batch" by the turn that receives it, and that
\* turn creates no request object (so no upstream call), no batch job, and
\* leaves the queues, the active-batch maps and the cache as they were.
C11_OversizeBatchRejected ==
    [][\A w \in Workers, body \in BatchBodies :
          Len(body.products) > MaxBatchProducts /\ SubmitBatch(w, body)
          => /\ lastResponse' = BadRequest("Maximum 10 products per batch")
             /\ UNCHANGED << reqs, nextId, batchJobs, requestQueue,
                             processingBatches, batchCounter, immediate,
                             cache, warm, dispatchOrder, cycleSizes >>]_vars

\* the oversize batch has been answered and nothing is in progress
C11_Witness ==
    /\ lastResponse = BadRequest("Maximum 10 products per batch")
    /\ budget = 0
    /\ Live = {}
    /\ batchJobs = << >>
    /\ \A k \in CacheKeys : cache[k] = NoEntry

\* C12: the turn that completes an accepted batch of n products answers 200
\* with success = true and n entries, entry i being the one of product i; no
\* batch request is ever answered with a 500; and every accepted batch is
\* eventually answered, whichever of its items fail.
C12_BatchCompletes ==
    /\ [][\A j \in DOMAIN batchJobs :
            j \notin DOMAIN batchJobs'
            => /\ lastResponse'.kind = "batch"
               /\ lastResponse'.status = 200
               /\ lastResponse'.success
               /\ Len(lastResponse'.results) = Len(batchJobs[j].products)
               /\ \A i \in DOMAIN batchJobs[j].products :
                     /\ lastResponse'.results[i] # Pending
                     /\ lastResponse'.results[i].productData = batchJobs[j].products[i]]_vars
    /\ [](lastResponse # NoResponse => lastResponse.status \in {200, 400})
    /\ (batchJobs # << >>) ~> (batchJobs = << >>)

\* a batch of two or more products, of different kinds, has been answered
\* although items of it failed
C12_Witness ==
    /\ lastResponse.kind = "batch"
    /\ lastResponse.success
    /\ Len(lastResponse.results) >= 2
    /\ lastResponse.results[1].productData # lastResponse.results[2].productData
    /\ \E i \in DOMAIN lastResponse.results : ~lastResponse.results[i].success

\* C13: any two applications of getFallbackAnalysis to one product return
\* results equal in every field.
C13_FallbackDeterministic ==
    \A i, j \in DOMAIN estimates : estimates[i] = estimates[j]

\* C14: for every combination of the signals of the score (grade A or B,
\* organic ingredient, recyclable packaging; palm oil, deforestation,
\* artificial ingredient) the sustainabilityScore of the fallback analysis is
\* an integer from 0 to 100.
C14_ScoreInRange ==
    \A i \in DOMAIN estimates :
        estimates[i].analysis.sustainabilityScore \in 0 .. 100

\* every negative signal and no positive one: the lowest score, 10
C14_Witness ==
    /\ estimates # << >>
    /\ NonEmpty(subject.palmOil)
    /\ NonEmpty(subject.deforestation)
    /\ subject.ingredients = "artificial"
    /\ subject.sustainability = "C"
    /\ subject.packaging = ""
    /\ estimates[1].analysis.sustainabilityScore = 10

\* C15: the answer to {name: "Cola", category: "Beverages"} after a failed
\* upstream call is a fallback analysis whose carbonFootprint.perUnit is from
\* 0.1 to 0.5 and whose waterInGallons is from 0.3 to 3 (both in hundredths).
C15_ColaFallbackInRange ==
    /\ SingleAnswer
    /\ lastResponse.productData = Cola
    /\ lastResponse.status = 200 => lastResponse.analysis.source # GeminiSource
    => /\ lastResponse.status = 200
       /\ lastResponse.analysis.source = FallbackSource
       /\ lastResponse.analysis.carbonFootprint.perUnit \in 10 .. 50
       /\ lastResponse.analysis.environmentalEquivalents.waterInGallons \in 30 .. 300

\* C16: the turn in which a cache read fails (GET rejects or JSON.parse
\* throws) sends no response and does what a miss does, whatever the store
\* holds: it builds the request, enqueues it and dispatches it with one
\* upstream call, and leaves the cache alone.
C16_ReadFailureIsMiss ==
    /\ [](warned = ReadWarning
            => /\ lastResponse = NoResponse
               /\ nextId - 1 \in Live
               /\ reqs[nextId - 1].st = "calling"
               /\ reqs[nextId - 1].calls = 1
               /\ reqs[nextId - 1].cacheKey = KeyOf(reqs[nextId - 1].productData)
               /\ requestQueue[reqs[nextId - 1].worker] = << >>)
    /\ [][warned' = ReadWarning
            => /\ \E rd \in Readers :
                     /\ reading' = reading (-) SetToBag({rd})
                     /\ reqs' = (nextId :> StartCall(NewRequest(rd, FALSE))) @@ reqs
               /\ nextId' = nextId + 1
               /\ cache' = cache]_vars

\* a read has just failed for a key the store holds, and the request is
\* being processed
C16_Witness ==
    /\ warned = ReadWarning
    /\ nextId - 1 \in Live
    /\ reqs[nextId - 1].st = "calling"
    /\ cache[reqs[nextId - 1].cacheKey] # NoEntry

\* C17 (as claimed): when the cache write after a successful upstream call
\* fails, the request is answered with the upstream result and the cache
\* holds no entry for its key.
C17_WriteFailureLeavesNoEntry ==
    warned = WriteWarning
        => /\ SingleAnswer
           /\ lastResponse.status = 200
           /\ lastResponse.analysis.source = GeminiSource
           /\ cache[KeyOf(lastResponse.productData)] = NoEntry

\* C17 (amended): when the cache write after a successful upstream call
\* fails, the request is answered 200 with the upstream result of its own
\* call, not cached, and the failed write leaves the cache as it was (with
\* the entry another request stored under that key, if any).
C17_WriteFailureStillResolves ==
    /\ [](warned = WriteWarning
            => /\ SingleAnswer
               /\ lastResponse.status = 200
               /\ ~lastResponse.cached
               /\ lastResponse.calls = 1
               /\ lastResponse.analysis = GeminiAnalysis(lastResponse.productData))
    /\ [][warned' = WriteWarning => cache' = cache /\ warm' = warm]_vars

\* a write has just failed, the key has no entry, the request is answered
C17_Witness ==
    /\ warned = WriteWarning
    /\ SingleAnswer
    /\ lastResponse.status = 200
    /\ lastResponse.analysis.source = GeminiSource
    /\ cache[KeyOf(lastResponse.productData)] = NoEntry

\* C18: the turn that answers a submission from the cache sends the stored
\* analysis, which has upstream provenance, and changes no queue, no
\* active-batch map, no batch counter and no request object (so it makes no
\* upstream call); the cache itself is left as it was.
C18_HitTouchesNothing ==
    [][/\ lastResponse'.kind = "single"
       /\ lastResponse'.status = 200
       /\ lastResponse'.cached
       => /\ UNCHANGED << requestQueue, processingBatches, batchCounter,
                          immediate, reqs, nextId, dispatchOrder, cache >>
          /\ lastResponse'.calls = 0
          /\ lastResponse'.analysis = cache[KeyOf(lastResponse'.productData)]
          /\ lastResponse'.analysis.source = GeminiSource]_vars

\* a submission has been answered from the cache: one request object and
\* one batch have been made in all, for the submission that stored the entry
C18_Witness ==
    /\ SingleAnswer
    /\ lastResponse.status = 200
    /\ lastResponse.cached
    /\ nextId = 2
    /\ Live = {}
    /\ \E w \in Workers :
          /\ batchCounter[w] = 1
          /\ \A v \in Workers \ {w} : batchCounter[v] = 0

\* C19: the master starts with one worker per CPU; the live workers never
\* number more than that; every 'exit' event handled forks exactly one
\* worker and every fork handles one 'exit' event, whatever the exit code;
\* and whenever fewer workers are alive, the full number is alive again later.
C19_WorkersRestored ==
    /\ [](Cardinality(alive) <= NumWorkers)
    /\ [](Cardinality(alive) + Len(exitQueue) = NumWorkers)
    /\ [][forks' # forks \/ Len(exitQueue') < Len(exitQueue)
            => /\ exitQueue # << >>
               /\ exitQueue' = Tail(exitQueue)
               /\ forks' = forks + 1
               /\ alive' = alive \cup {forks'}
               /\ forks' \notin alive]_vars
    /\ (Cardinality(alive) < NumWorkers) ~> (Cardinality(alive) = NumWorkers)

\* the replacement of a worker that exited with code 0 has just been forked
\* while a crashed one is waiting to be replaced
C19_Witness ==
    /\ forks = NumWorkers + 1
    /\ forks \in alive
    /\ Len(exitQueue) = 1
    /\ exitQueue[1].code = 1
    /\ forks - 1 \notin alive

\* The signature of a product after normalization: the letter case of each
\* field folded and the spaces around it trimmed
Trim(cs) ==
    LET kept == { i \in DOMAIN cs : cs[i] # " " }
    IN IF kept = {} THEN << >>
       ELSE SubSeq(cs, CHOOSE i \in kept : \A j \in kept : i <= j,
                       CHOOSE i \in kept : \A j \in kept : i >= j)
NormalField(v) == Trim(toLowerCase(Chars(v)))
Normalized(pd) ==
    << NormalField(pd.name), NormalField(pd.brand),
       NormalField(pd.category), NormalField(pd.ingredients) >>

\* C20: two requests whose signatures are equal after normalization have the
\* same cache key, and every cache entry is stored under the key of the
\* product of the request that produced it.
C20_NormalizedKeys ==
    /\ \A a, b \in Live :
          Normalized(reqs[a].productData) = Normalized(reqs[b].productData)
          => reqs[a].cacheKey = reqs[b].cacheKey
    /\ \A k \in CacheKeys :
          cache[k] # NoEntry => k = KeyOf(cache[k].productData)

\* C21: a request that is dispatched while the cache holds an entry for its
\* key (written since its admission) makes no upstream call.
C21_RecheckAtDispatch ==
    [][\A id \in DOMAIN reqs' :
          /\ reqs'[id].st = "calling"
          /\ id \in Live => reqs[id].st = "queued"
          /\ cache[reqs'[id].cacheKey] # NoEntry
          => reqs'[id].calls = 0]_vars

\* No numeric field negative and the score from 0 to 100
Plausible(a) ==
    /\ a.sustainabilityScore \in 0 .. 100
    /\ a.carbonFootprint.perUnit >= 0

\* C22: every cache entry and every analysis sent to a caller has its
\* sustainabilityScore within 0..100 and no negative numeric field, whatever
\* the upstream returned.
C22_UpstreamResultClamped ==
    /\ \A k \in CacheKeys : cache[k] # NoEntry => Plausible(cache[k])
    /\ SingleAnswer /\ lastResponse.status = 200 => Plausible(lastResponse.analysis)

TakeOrder(w) == dispatchOrder \o requestQueue[w]

OwnAnswers(r) ==
    { SingleResponse(r, [how |-> "resolved", analysis |-> r.analysis]),
      SingleResponse(r, CatchBlock(r)) }

\* C25: a request is taken from the queue once (no id occurs twice in the
\* dispatch order), a dispatched request is never in a queue again, request
\* objects are always new ones, and the promise of a request settles once:
\* the step that discards the request sends exactly one answer, which is its
\* upstream result, its fallback or the error, no other step sends an
\* uncached answer, and the socket error that follows a timeout sends
\* nothing and touches no request.
C25_SettledOnce ==
    /\ [](\A i, j \in DOMAIN dispatchOrder :
            dispatchOrder[i] = dispatchOrder[j] => i = j)
    /\ [](\A w \in Workers :
            Range(requestQueue[w]) \cap Range(dispatchOrder) = {})
    /\ [](\A id \in Live \cup Range(dispatchOrder) \cup lateErrors : id < nextId)
    /\ [][/\ nextId' >= nextId
          /\ Cardinality(Live \ Live') <= 1
          /\ \A id \in Live \ Live' :
                /\ lastResponse' \in OwnAnswers(reqs[id])
                /\ reqs[id].st = "calling" => lastResponse' = SingleResponse(reqs[id], CatchBlock(reqs[id]))
          /\ /\ lastResponse'.kind = "single"
             /\ lastResponse'.status = 200 => ~lastResponse'.cached
             => Live \ Live' # {}
          /\ lateErrors' # lateErrors /\ lateErrors' \subseteq lateErrors
             => lastResponse' = NoResponse /\ reqs' = reqs]_vars

\* the timeout of the first call has been answered with the fallback and the
\* socket error of the same call has fired since: of the turns that leave no
\* response behind, only that one needs neither a submission nor a reader
C25_Witness ==
    /\ dispatchOrder = << 1 >>
    /\ Live = {}
    /\ lateErrors = {}
    /\ Readers = {}
    /\ budget = MaxRequests - 1
    /\ cache[KeyOf(Cola)] = NoEntry
    /\ lastResponse = NoResponse

\* C26 (as claimed): an item of an accepted batch carries the cache key of
\* its product, makes an upstream call only when the cache has no entry for
\* that key, is in a batch of its worker's dispatcher while its upstream call
\* is in flight, and at most five upstream calls of one worker are in flight.
C26_BatchItemsAsSubmits ==
    /\ \A id \in Live :
          reqs[id].job # 0 =>
            /\ reqs[id].cacheKey = KeyOf(reqs[id].productData)
            /\ reqs[id].st = "calling" =>
                  /\ id \in Range(dispatchOrder)
                  /\ \E b \in DOMAIN processingBatches[reqs[id].worker] :
                        id \in Range(processingBatches[reqs[id].worker][b])
    /\ \A w \in Workers : Cardinality(InFlight(w)) <= BatchLimit

\* The requests dispatched in one cycle with request id, id excluded
Siblings(id) ==
    { j \in Range(processingBatches[reqs[id].worker][BatchOf(reqs[id].worker, id)]) :
        j # id }

ActsIn(a) ==
    \/ \E rd \in BagToSet(reading) \cup BagToSet(reading') :
          rd.worker = a /\ CopiesIn(rd, reading') # CopiesIn(rd, reading)
    \/ \E id \in Live \ Live' : reqs[id].worker = a
    \/ \E id \in Live' : reqs'[id].worker = a /\ (id \in Live => reqs'[id] # reqs[id])

\* What worker b owns
OwnState(b) ==
    << requestQueue[b], processingBatches[b], batchCounter[b], immediate[b], cycleSizes[b] >>

\* C28: a step that is an operation of worker a leaves the queue, the
\* active-batch map, the batch counter and the pending dispatches of every
\* other worker unchanged, and the state a worker owns changes only in its
\* own operations.
C28_WorkersShareOnlyCache ==
    [][\A a, b \in Workers :
          /\ ActsIn(a) /\ b # a => OwnState(b)' = OwnState(b)
          /\ OwnState(b)' # OwnState(b) => ActsIn(b)]_vars

\* both workers have missed the cache for one key and each has an upstream
\* call for it in flight
C28_Witness ==
    \E i, j \in Live :
        /\ reqs[i].worker = 1
        /\ reqs[j].worker = 2
        /\ reqs[i].cacheKey = reqs[j].cacheKey
        /\ reqs[i].st = "calling" /\ reqs[j].st = "calling"
        /\ batchCounter = [w \in Workers |-> 1]
        /\ cache[reqs[i].cacheKey] = NoEntry

\* C29: between the turns of a worker that is fed by /analyze-carbon its
\* queue is empty, no request object is waiting to be dispatched, no
\* setImmediate(processBatches) is pending, and every cycle it has started
\* took exactly one request.
C29_QueueEmptyAtYield ==
    /\ \A w \in Workers :
          /\ requestQueue[w] = << >>
          /\ immediate[w] = 0
          /\ Len(cycleSizes[w]) = batchCounter[w]
          /\ \A i \in DOMAIN cycleSizes[w] : cycleSizes[w][i] = 1
          /\ \A b \in DOMAIN processingBatches[w] : Len(processingBatches[w][b]) = 1
    /\ \A id \in Live : reqs[id].st # "queued"

\* two admissions of one worker with both upstream calls in flight: two
\* cycles of one request each
C29_Witness ==
    \E w \in Workers :
        /\ cycleSizes[w] = << 1, 1 >>
        /\ DOMAIN processingBatches[w] = {1, 2}
        /\ Cardinality(InFlight(w)) = 2

\* The requests of worker w that have been dequeued and have not settled
Dispatched(w) == { id \in Live : reqs[id].worker = w /\ reqs[id].st # "queued" }

\* activeBatches as /health reports it: processingBatches.size
activeBatches(w) == Cardinality(DOMAIN processingBatches[w])

====
